---- MODULE Spec2Model ----
(***************************************************************************)
(* PMC-Baseline-Mesh-to-DB (src/main.py): a thread pool parses PubMed      *)
(* .xml.gz archives and loads the articles that carry a PMC id, with their *)
(* MeSH descriptor/qualifier pairs, into a two-table SQLite database.      *)
(*                                                                         *)
(* An XML element is modelled by what the code reads of it: the sequence   *)
(* of children a find/findall returns, its text, its attributes.  A text   *)
(* or attribute that is missing is None.                                   *)
(***************************************************************************)
EXTENDS Integers, Sequences, FiniteSets, TLC

\* ------------------------------------------------------------------ bounds
\* number of .xml.gz files found in the directory
NumFiles == 2
\* largest value of --max_threads that is explored
MaxThreadsBound == 2
\* Python's None (element.text of an empty element, a missing attribute)
None == "<None>"

Files == 1..NumFiles

\* ------------------------------------------------------- input documents
\* <ArticleId IdType=t>text</ArticleId>
Id(t, text) == [IdType |-> t, text |-> text]
\* <DescriptorName UI=.. MajorTopicYN=..>text</DescriptorName>, also QualifierName
Name(text, ui, yn) == [text |-> text, UI |-> ui, MajorTopicYN |-> yn]
\* <MeshHeading>: its DescriptorName children and its QualifierName children
Heading(ds, qs) == [DescriptorName |-> ds, QualifierName |-> qs]
\* <PubmedArticle>: the children lists the extractor searches
Node(pmids, ids, titles, journals, mesh) ==
    [PMID |-> pmids, ArticleId |-> ids, ArticleTitle |-> titles,
     JournalTitle |-> journals, MeshHeading |-> mesh]

\* PMC1 with one descriptor and one qualifier
NodeA == Node(<<"1">>, <<Id("pmc", "PMC1")>>, <<"T1">>, <<"J1">>,
              <<Heading(<<Name("D1", "UD1", "Y")>>, <<Name("Q1", "UQ1", "N")>>)>>)
\* PMC1 again, from another record: other PMID, DOI, title and heading
NodeB == Node(<<"2">>, <<Id("doi", "10.1/b"), Id("pmc", "PMC1")>>, <<"T2">>, <<>>,
              <<Heading(<<Name("D2", "UD2", "N")>>, <<Name("Q2", "UQ2", "Y")>>)>>)
\* PMC2, no title, a descriptor without qualifier
NodeC == Node(<<"3">>, <<Id("pmc", "PMC2")>>, <<>>, <<"J3">>,
              <<Heading(<<Name("D3", "UD3", "Y")>>, <<>>)>>)
\* no ArticleId of type pmc at all
NodeNoKey == Node(<<"4">>, <<Id("doi", "10.1/d")>>, <<"T4">>, <<"J4">>,
              <<Heading(<<Name("D4", "UD4", "Y")>>, <<Name("Q4", "UQ4", "Y")>>)>>)
\* an empty <ArticleId IdType="pmc"/>: its text is None
NodeNullKey == Node(<<"5">>, <<Id("pmc", None)>>, <<"T5">>, <<"J5">>,
              <<Heading(<<Name("D5", "UD5", "N")>>, <<Name("Q5", "UQ5", "N")>>)>>)
\* a record without PMID element
NodeNoPMID == Node(<<>>, <<Id("pmc", "PMC3")>>, <<"T6">>, <<"J6">>, <<>>)

\* the archives a directory may hold, by file name
Archives == {"a_nokey_c.xml.gz", "b_a.xml.gz", "c_nopmid.xml.gz", "nullkey.xml.gz"}

\* root.findall(".//PubmedArticle") of each archive
Content(name) ==
    CASE name = "a_nokey_c.xml.gz" -> <<NodeA, NodeNoKey, NodeC>>
      [] name = "b_a.xml.gz" -> <<NodeB, NodeA>>
      [] name = "c_nopmid.xml.gz" -> <<NodeC, NodeNoPMID>>
      [] name = "nullkey.xml.gz" -> <<NodeNullKey>>

\* --------------------------------------------------------------- extractor
\* element.find(..): the first match, or None
Find(children) == IF children = <<>> THEN None ELSE Head(children)

\* lines 72-76: every ArticleId of the type overwrites the value found so far
RECURSIVE ScanArticleIds(_, _, _)
ScanArticleIds(ids, type, found) ==
    IF ids = <<>> THEN found
    ELSE ScanArticleIds(Tail(ids), type,
                        IF Head(ids).IdType = type THEN Head(ids).text ELSE found)

\* int(x.get("MajorTopicYN") == "Y")
MajorFlag(yn) == IF yn = "Y" THEN 1 ELSE 0

\* mutant: find instead of findall, only the first QualifierName gives a row
QualifierFirstOnly(pmcid, d, qs) ==
    IF qs = <<>> THEN <<>>
    ELSE <<[pmcid |-> pmcid, descriptor |-> d.text, ui |-> d.UI,
            major |-> MajorFlag(d.MajorTopicYN),
            qualifier |-> Head(qs).text, qual_ui |-> Head(qs).UI,
            qual_major |-> MajorFlag(Head(qs).MajorTopicYN)]>>

\* lines 97-111: one mesh_terms row per QualifierName under a present descriptor
RECURSIVE QualifierRows(_, _, _)
QualifierRows(pmcid, d, qs) ==
    IF qs = <<>> THEN <<>>
    ELSE <<[pmcid |-> pmcid, descriptor |-> d.text, ui |-> d.UI,
            major |-> MajorFlag(d.MajorTopicYN),
            qualifier |-> Head(qs).text, qual_ui |-> Head(qs).UI,
            qual_major |-> MajorFlag(Head(qs).MajorTopicYN)]>>
         \o QualifierRows(pmcid, d, Tail(qs))

\* lines 90-111: the rows of every MeshHeading, in document order
RECURSIVE MeshRows(_, _)
MeshRows(pmcid, hs) ==
    IF hs = <<>> THEN <<>>
    ELSE (IF Head(hs).DescriptorName = <<>> THEN <<>>
          ELSE QualifierRows(pmcid, Head(Head(hs).DescriptorName), Head(hs).QualifierName))
         \o MeshRows(pmcid, Tail(hs))

\* lines 113-122: the dict appended for an article that has a pmcid
ArticleDict(node, pmcid) ==
    [pmcid |-> pmcid,
     pmid |-> Head(node.PMID),
     doi |-> ScanArticleIds(node.ArticleId, "doi", None),
     title |-> Find(node.ArticleTitle),
     journal |-> Find(node.JournalTitle),
     mesh_terms |-> MeshRows(pmcid, node.MeshHeading)]

\* mutant: the filter at line 78 is missing
KeepsEveryArticle(pmcid) == TRUE

\* line 78: only an article whose pmcid is not None is appended
KeepsArticle(pmcid) == pmcid # None

\* mutant: at a node without PMID the loop ends and the list built so far is
\* returned
RECURSIVE ParseNodesKeepPartial(_, _)
ParseNodesKeepPartial(nodes, acc) ==
    IF nodes = <<>> THEN [raised |-> FALSE, articles |-> acc]
    ELSE IF Head(nodes).PMID = <<>> THEN [raised |-> FALSE, articles |-> acc]
    ELSE LET pmcid == ScanArticleIds(Head(nodes).ArticleId, "pmc", None)
         IN  ParseNodesKeepPartial(Tail(nodes),
                        IF KeepsArticle(pmcid)
                        THEN Append(acc, ArticleDict(Head(nodes), pmcid))
                        ELSE acc)

\* lines 63-124: the loop over the PubmedArticle nodes.  article.find(".//PMID").text
\* raises AttributeError when the node has no PMID; the exception leaves the function.
RECURSIVE ParseNodes(_, _)
ParseNodes(nodes, acc) ==
    IF nodes = <<>> THEN [raised |-> FALSE, articles |-> acc]
    ELSE IF Head(nodes).PMID = <<>> THEN [raised |-> TRUE, articles |-> <<>>]
    ELSE LET pmcid == ScanArticleIds(Head(nodes).ArticleId, "pmc", None)
         IN  ParseNodes(Tail(nodes),
                        IF KeepsArticle(pmcid)
                        THEN Append(acc, ArticleDict(Head(nodes), pmcid))
                        ELSE acc)

parse_pubmed_xml(file_path) == ParseNodes(Content(file_path), <<>>)

\* ------------------------------------------------------------------ state
VARIABLES
    files,        \* the directory: file -> archive name (fixed for all runs)
    max_threads,  \* --max_threads
    run,          \* "first", or "second" when the program is run again on the same DB_FILE
    queue,        \* the executor's work queue: files submitted, not yet picked up
    pc,           \* file -> where its process_file call is
    batch,        \* file -> the list parse_pubmed_xml returned
    pos,          \* file -> index of the loop at line 133 (articles executed so far)
    DB_LOCK,      \* 0 when free, else the file whose task holds it
    conn,         \* file -> its connection: open transaction and uncommitted rows
    articles,     \* committed rows of table articles
    mesh_terms,   \* committed rows of table mesh_terms, in id order
    calls,        \* file -> how often it was dispatched / parsed / passed to the writer
    committed,    \* files whose batch was committed in this run, in commit order
    atRunStart,   \* the two tables as they were when this run began
    prevDone,     \* files that reached done in the previous run
    atBegin,      \* file -> the two tables as they were when it entered the writer
    error,        \* file -> what made it fail: "", "parse", "write" or "locked"
    skipped,      \* the keys printed by line 166, "Skipping duplicate entry: ..."
    root,         \* the PubmedArticle nodes of a tree handed to parse_pubmed_xml alone
    parsed        \* what parse_pubmed_xml returned for root, or NotParsed

vars == <<files, max_threads, run, queue, pc, batch, pos, DB_LOCK, conn,
          articles, mesh_terms, calls, committed, atRunStart, prevDone, atBegin,
          error, skipped, root, parsed>>

\* no call of parse_pubmed_xml has returned yet
NotParsed == [returned |-> FALSE, raised |-> FALSE, articles |-> <<>>]
\* the call has ended with result r
Returned(r) == [returned |-> TRUE, raised |-> r.raised, articles |-> r.articles]

\* a connection without open transaction
NoTx == [tx |-> FALSE, articles |-> {}, mesh_terms |-> <<>>]
NoCalls == [dispatched |-> 0, parsed |-> 0, inserted |-> 0]
Store == [articles |-> articles, mesh_terms |-> mesh_terms]
NoStore == [articles |-> {}, mesh_terms |-> <<>>]

\* lines 187-191: the file list, in listing order
RECURSIVE FileList(_)
FileList(n) == IF n = 0 THEN <<>> ELSE Append(FileList(n - 1), n)

\* tasks that occupy a worker thread
Active == {f \in Files : pc[f] \notin {"pending", "done", "failed"}}

\* the executor has shut down: nothing queued, no task running (line 193, end of with)
RunEnded == queue = <<>> /\ Active = {}

\* ----------------------------------------------------------------- writer
Keys(rows) == {r.pmcid : r \in rows}

\* the tuple bound at lines 140-146
ArticleRow(a) == [pmcid |-> a.pmcid, pmid |-> a.pmid, doi |-> a.doi,
                  title |-> a.title, journal |-> a.journal]

\* mutant: the article insert is left out, only the headings are written
InsertNothing(table, added, row) == added

\* mutant: the insert does not look at the primary key
InsertAlways(table, added, row) == added \cup {row}

\* lines 135-147, INSERT OR IGNORE under PRIMARY KEY (pmcid): the rows the
\* transaction adds, given the committed table it sees
InsertOrIgnore(table, added, row) ==
    IF row.pmcid \in Keys(table \cup added) THEN added ELSE added \cup {row}

\* lines 149-164: the mesh_terms inserts that follow the article insert,
\* whether or not that insert added a row
InsertMesh(rows, a) == rows \o a.mesh_terms

\* lines 134-166: one iteration of the loop, on the connection's transaction
ExecuteArticle(table, c, a) ==
    [tx |-> TRUE,
     articles |-> InsertOrIgnore(table, c.articles, ArticleRow(a)),
     mesh_terms |-> InsertMesh(c.mesh_terms, a)]

\* lines 135-147, 165: INSERT OR IGNORE resolves a PRIMARY KEY conflict by
\* leaving the row out and raises nothing; the mesh_terms inserts meet no
\* constraint (foreign keys are not enforced unless PRAGMA foreign_keys is set)
RaisesIntegrityError(table, added, row) == FALSE

\* mutant: conn.commit() is missing, close() drops the transaction
CommitNothing(store, c) == store

\* line 168: the transaction's rows become the committed rows
CommitTo(store, c) ==
    [articles |-> store.articles \cup c.articles,
     mesh_terms |-> store.mesh_terms \o c.mesh_terms]

\* SQLite admits one write transaction: an INSERT waits in the busy handler
\* while another connection's transaction is open
WriteLockFree(f) == \A g \in Files \ {f} : ~conn[g].tx

\* line 129: threading.Lock is acquired only when nobody holds it
LockFree(f) == DB_LOCK = 0

\* mutant: the work item stays in the queue
NotRemoved(q) == q

\* line 194: a work item is taken off the queue by the worker that runs it
Remaining(q) == Tail(q)

\* mutant: the tables are created anew
init_db_recreate(store) == [articles |-> {}, mesh_terms |-> <<>>]

\* lines 20-52: CREATE TABLE IF NOT EXISTS leaves existing tables as they are
init_db(store) == store

\* mutant: a thread per submitted file
NoPoolBound == TRUE

\* the pool runs at most max_threads tasks at a time
WorkerFree == Cardinality(Active) < max_threads

\* ----------------------------------------------------------------- actions
Init ==
    /\ files \in [Files -> Archives]
    /\ max_threads \in 1..MaxThreadsBound
    /\ run = "first"
    /\ queue = FileList(NumFiles)
    /\ pc = [f \in Files |-> "pending"]
    /\ batch = [f \in Files |-> <<>>]
    /\ pos = [f \in Files |-> 0]
    /\ DB_LOCK = 0
    /\ conn = [f \in Files |-> NoTx]
    /\ articles = {}
    /\ mesh_terms = <<>>
    /\ calls = [f \in Files |-> NoCalls]
    /\ committed = <<>>
    /\ atRunStart = NoStore
    /\ prevDone = {}
    /\ atBegin = [f \in Files |-> NoStore]
    /\ error = [f \in Files |-> ""]
    /\ skipped = <<>>
    /\ root = <<>>
    /\ parsed = NotParsed

\* lines 193-194: a worker thread takes the next file from the queue
Dispatch(f) ==
    /\ queue # <<>>
    /\ f = Head(queue)
    /\ WorkerFree
    /\ queue' = Remaining(queue)
    /\ pc' = [pc EXCEPT ![f] = "extracting"]
    /\ calls' = [calls EXCEPT ![f].dispatched = @ + 1]
    /\ UNCHANGED <<skipped, root, parsed, files, max_threads, run, batch, pos,
                   DB_LOCK, conn, articles, mesh_terms, committed, atRunStart,
                   prevDone, atBegin, error>>

\* lines 174-180: parse the file; on an exception print it and return,
\* else call insert_articles, which waits for DB_LOCK
Extract(f) ==
    /\ pc[f] = "extracting"
    /\ LET r == parse_pubmed_xml(files[f])
       IN  /\ pc' = [pc EXCEPT ![f] = IF r.raised THEN "failed" ELSE "waiting"]
           /\ batch' = [batch EXCEPT ![f] = r.articles]
           /\ calls' = [calls EXCEPT ![f].parsed = @ + 1,
                                     ![f].inserted = @ + (IF r.raised THEN 0 ELSE 1)]
           /\ error' = [error EXCEPT ![f] = IF r.raised THEN "parse" ELSE @]
    /\ UNCHANGED <<skipped, root, parsed, files, max_threads, run, queue, pos,
                   DB_LOCK, conn, articles, mesh_terms, committed, atRunStart,
                   prevDone, atBegin>>

\* lines 129-131: enter the with block, connect, open a cursor
Acquire(f) ==
    /\ pc[f] = "waiting"
    /\ LockFree(f)
    /\ DB_LOCK' = f
    /\ pc' = [pc EXCEPT ![f] = "writing"]
    /\ pos' = [pos EXCEPT ![f] = 0]
    /\ conn' = [conn EXCEPT ![f] = NoTx]
    /\ atBegin' = [atBegin EXCEPT ![f] = Store]
    /\ UNCHANGED <<skipped, root, parsed, files, max_threads, run, queue,
                   batch, articles, mesh_terms, calls, committed, atRunStart,
                   prevDone, error>>

\* lines 133-166: one article of the batch and its mesh terms
InsertArticle(f) ==
    /\ pc[f] = "writing"
    /\ pos[f] < Len(batch[f])
    /\ WriteLockFree(f)
    /\ LET a == batch[f][pos[f] + 1]
       IN  IF RaisesIntegrityError(articles, conn[f].articles, ArticleRow(a))
           THEN \* lines 165-166: print the notice, go on with the next article
                /\ skipped' = Append(skipped, a.pmcid)
                /\ conn' = [conn EXCEPT ![f].tx = TRUE]
           ELSE /\ conn' = [conn EXCEPT ![f] = ExecuteArticle(articles, @, a)]
                /\ UNCHANGED skipped
    /\ pos' = [pos EXCEPT ![f] = @ + 1]
    /\ UNCHANGED <<root, parsed, files, max_threads, run, queue, pc, batch,
                   DB_LOCK, articles, mesh_terms, calls, committed, atRunStart,
                   prevDone, atBegin, error>>

\* lines 168-169 and the end of the with block: commit, close, release
Commit(f) ==
    /\ pc[f] = "writing"
    /\ pos[f] = Len(batch[f])
    /\ articles' = CommitTo(Store, conn[f]).articles
    /\ mesh_terms' = CommitTo(Store, conn[f]).mesh_terms
    /\ conn' = [conn EXCEPT ![f] = NoTx]
    /\ DB_LOCK' = 0
    /\ pc' = [pc EXCEPT ![f] = "done"]
    /\ committed' = Append(committed, f)
    /\ atBegin' = [atBegin EXCEPT ![f] = NoStore]
    /\ batch' = [batch EXCEPT ![f] = <<>>]
    /\ pos' = [pos EXCEPT ![f] = 0]
    /\ UNCHANGED <<skipped, root, parsed, files, max_threads, run, queue,
                   calls, atRunStart, prevDone, error>>

\* mutant: acquire() without a release on the error path
KeptOnError(f) == f

\* what the with block does to DB_LOCK when an exception leaves it
ReleaseOnError(f) == 0

\* lines 129-169 and 178-180 when an exception other than IntegrityError leaves
\* the loop or the commit: the with block releases DB_LOCK, lines 168-169 are
\* skipped, so conn is neither rolled back nor closed and keeps its open
\* transaction; process_file prints the error and returns
Raise(f, what) ==
    /\ DB_LOCK' = ReleaseOnError(f)
    /\ pc' = [pc EXCEPT ![f] = "failed"]
    /\ error' = [error EXCEPT ![f] = what]
    /\ batch' = [batch EXCEPT ![f] = <<>>]
    /\ pos' = [pos EXCEPT ![f] = 0]
    /\ atBegin' = [atBegin EXCEPT ![f] = NoStore]
    /\ UNCHANGED <<skipped, root, parsed, files, max_threads, run, queue, conn,
                   articles, mesh_terms, calls, committed, atRunStart,
                   prevDone>>

\* connect, execute or commit raises on its own account (disk full, I/O error)
WriteError(f) ==
    /\ pc[f] = "writing"
    /\ Raise(f, "write")

\* line 135: the INSERT has waited for the write lock for the connection's
\* timeout (sqlite3.connect's default) and raises "database is locked"
BusyTimeout(f) ==
    /\ pc[f] = "writing"
    /\ pos[f] < Len(batch[f])
    /\ ~WriteLockFree(f)
    /\ Raise(f, "locked")

\* mutant: the rows executed before the error are committed
PartialKept(store, c) ==
    [articles |-> store.articles \cup c.articles,
     mesh_terms |-> store.mesh_terms \o c.mesh_terms]

\* the store once a connection that was never committed is gone
AfterDiscard(store, c) == store

\* the connection a failed insert_articles call left behind is closed when the
\* garbage collector frees it, at some later time; its transaction is discarded
Finalize(f) ==
    /\ pc[f] = "failed"
    /\ conn[f].tx
    /\ articles' = AfterDiscard(Store, conn[f]).articles
    /\ mesh_terms' = AfterDiscard(Store, conn[f]).mesh_terms
    /\ conn' = [conn EXCEPT ![f] = NoTx]
    /\ UNCHANGED <<skipped, root, parsed, files, max_threads, run, queue, pc,
                   batch, pos, DB_LOCK, calls, committed, atRunStart, prevDone,
                   atBegin, error>>

\* lines 197-200 again on the same directory and DB_FILE, in a new process: the
\* old process's connections are gone, init_db creates nothing new (IF NOT
\* EXISTS), every file is submitted again
NextRun ==
    /\ RunEnded
    /\ run = "first"
    /\ run' = "second"
    /\ articles' = init_db(Store).articles
    /\ mesh_terms' = init_db(Store).mesh_terms
    /\ queue' = FileList(NumFiles)
    /\ pc' = [f \in Files |-> "pending"]
    /\ batch' = [f \in Files |-> <<>>]
    /\ pos' = [f \in Files |-> 0]
    /\ calls' = [f \in Files |-> NoCalls]
    /\ committed' = <<>>
    /\ atRunStart' = Store
    /\ prevDone' = {f \in Files : pc[f] = "done"}
    /\ atBegin' = [f \in Files |-> NoStore]
    /\ conn' = [f \in Files |-> NoTx]
    /\ DB_LOCK' = 0
    /\ error' = [f \in Files |-> ""]
    /\ skipped' = <<>>
    /\ UNCHANGED <<root, parsed, files, max_threads>>

\* the steps of the task of file f
process_file(f) ==
    \/ Extract(f)
    \/ Acquire(f)
    \/ InsertArticle(f)
    \/ Commit(f)
    \/ WriteError(f)
    \/ BusyTimeout(f)

Next ==
    \/ \E f \in Files : Dispatch(f)
    \/ \E f \in Files : process_file(f)
    \/ \E f \in Files : Finalize(f)
    \/ NextRun

Spec == Init /\ [][Next]_vars

\* a step of some worker thread
Worker == \E f \in Files : Dispatch(f) \/ process_file(f)

\* while some thread can run, a thread does run; the garbage collector and the
\* user who starts a second run are not scheduled
FairSpec == Spec /\ WF_vars(Worker)

\* ------------------------------------------------- the extractor on its own
\* most ArticleId children of one article
MaxIds == 3
\* most MeshHeading children of one article
MaxHeadings == 2
\* most QualifierName children of one MeshHeading
MaxQualifiers == 2

\* the sequences over S of length at most n
RECURSIVE SeqsUpTo(_, _)
SeqsUpTo(S, n) ==
    IF n = 0 THEN {<<>>}
    ELSE LET shorter == SeqsUpTo(S, n - 1)
         IN  shorter \cup {Append(q, x) : q \in shorter, x \in S}

\* <ArticleId> children: two pmc values, an empty pmc element, two DOIs, a pii
ArticleIds == {Id("pmc", "PMC7"), Id("pmc", "PMC8"), Id("pmc", None),
               Id("doi", "10.1/x"), Id("doi", "10.1/y"), Id("pii", "S1")}
\* the DescriptorName children of a heading: none, one, or two (find takes the first)
DescriptorLists == {<<>>, <<Name("D1", "UD1", "Y")>>,
                    <<Name("D2", "UD2", "N"), Name("D1", "UD1", "Y")>>}
\* <QualifierName> children; the second has no MajorTopicYN attribute
Qualifiers == {Name("Q1", "UQ1", "Y"), Name("Q2", "UQ2", None)}
Headings == {Heading(ds, qs) : ds \in DescriptorLists,
                               qs \in SeqsUpTo(Qualifiers, MaxQualifiers)}

\* trees of one PubmedArticle: every list of ArticleIds with one fixed heading,
\* and every list of headings under a fixed pmc id
Trees ==
    {<<Node(<<"9">>, ids, <<"T9">>, <<"J9">>,
            <<Heading(<<Name("D1", "UD1", "Y")>>, <<Name("Q1", "UQ1", "Y")>>)>>)>> :
        ids \in SeqsUpTo(ArticleIds, MaxIds)}
    \cup
    {<<Node(<<"9">>, <<Id("pmc", "PMC7")>>, <<"T9">>, <<"J9">>, hs)>> :
        hs \in SeqsUpTo(Headings, MaxHeadings)}

\* a tree is at hand, no thread pool is started
ParseInit ==
    /\ root \in Trees
    /\ parsed = NotParsed
    /\ files = [f \in Files |-> "nullkey.xml.gz"]
    /\ max_threads = 1
    /\ run = "first"
    /\ queue = <<>>
    /\ pc = [f \in Files |-> "pending"]
    /\ batch = [f \in Files |-> <<>>]
    /\ pos = [f \in Files |-> 0]
    /\ DB_LOCK = 0
    /\ conn = [f \in Files |-> NoTx]
    /\ articles = {}
    /\ mesh_terms = <<>>
    /\ calls = [f \in Files |-> NoCalls]
    /\ committed = <<>>
    /\ atRunStart = NoStore
    /\ prevDone = {}
    /\ atBegin = [f \in Files |-> NoStore]
    /\ error = [f \in Files |-> ""]
    /\ skipped = <<>>

\* lines 55-124: parse_pubmed_xml runs over the tree and returns
ParseTree ==
    /\ root # <<>>
    /\ parsed = NotParsed
    /\ parsed' = Returned(ParseNodes(root, <<>>))
    /\ UNCHANGED <<root, files, max_threads, run, queue, pc, batch, pos, DB_LOCK,
                   conn, articles, mesh_terms, calls, committed, atRunStart,
                   prevDone, atBegin, error, skipped>>

ParseNext == ParseTree

ParseSpec == ParseInit /\ [][ParseNext]_vars

\* ------------------------------------------------------------------ claims
Range(q) == {q[i] : i \in DOMAIN q}
Terminal == {"done", "failed"}

\* what the extractor returns for file f
Extracted(f) == parse_pubmed_xml(files[f])

\* an archive record without usable key: no ArticleId of type pmc whose text is set
HasNoKey(node) ==
    \A i \in DOMAIN node.ArticleId :
        node.ArticleId[i].IdType = "pmc" => node.ArticleId[i].text = None

\* the rows a connection sees: the committed ones and its own
Seen(f) == articles \cup conn[f].articles
SeenMesh(f) == Range(mesh_terms) \cup Range(conn[f].mesh_terms)

\* C1: in every reachable state the articles table, committed or as seen inside
\* any task's transaction, holds at most one row per pmcid.
C1_OneRowPerKey ==
    \A f \in Files : \A r1, r2 \in Seen(f) : r1.pmcid = r2.pmcid => r1 = r2

\* two files that both carry PMC1, with different PMIDs, are done
C1_Witness ==
    \E f, g \in Files :
        /\ f # g
        /\ pc[f] = "done" /\ pc[g] = "done"
        /\ files[f] = "a_nokey_c.xml.gz"
        /\ files[g] = "b_a.xml.gz"
        /\ "PMC1" \in Keys(articles)

\* C2: every article row has a key that is not None, no batch handed to the
\* writer holds an article without key, and a record without key leaves
\* neither an article row (its PMID) nor a heading row (its descriptor).
C2_NoNullKey ==
    \A f \in Files :
        /\ \A i \in DOMAIN batch[f] : batch[f][i].pmcid # None
        /\ \A r \in Seen(f) : r.pmcid # None
        /\ \A m \in SeenMesh(f) : m.pmcid # None
        /\ \A i \in DOMAIN Content(files[f]) :
              LET node == Content(files[f])[i]
              IN  HasNoKey(node) /\ node.PMID # <<>> =>
                     /\ \A g \in Files : \A r \in Seen(g) : r.pmid # Head(node.PMID)
                     /\ \A g \in Files : \A m \in SeenMesh(g) :
                           \A j \in DOMAIN node.MeshHeading :
                               \A d \in Range(node.MeshHeading[j].DescriptorName) :
                                   m.descriptor # d.text

\* files with a record without pmc id and with one whose pmc id is empty are done
C2_Witness ==
    \E f, g \in Files :
        /\ pc[f] = "done" /\ pc[g] = "done"
        /\ files[f] = "a_nokey_c.xml.gz"
        /\ files[g] = "nullkey.xml.gz"
        /\ articles # {}
        /\ mesh_terms # <<>>

\* task g executes an insert (it returns, or raises "database is locked") or
\* commits in this step
ExecutesInsertOrCommit(g) ==
    /\ pc[g] = "writing"
    /\ \/ pos'[g] = pos[g] + 1
       \/ pc'[g] = "done"
       \/ error'[g] = "locked"

\* C3: at most one task has an open write transaction and at most one task is
\* inside the with block of insert_articles, holding DB_LOCK; and while the
\* transaction of a task is open, neither committed nor discarded, no other
\* task executes an insert or a commit, also after a batch write that ended
\* with an error.
C3_ExclusiveUntilDiscarded ==
    /\ [](Cardinality({f \in Files : conn[f].tx}) <= 1)
    /\ [](\A f \in Files : pc[f] = "writing" => DB_LOCK = f)
    /\ [][\A f, g \in Files :
             f # g /\ conn[f].tx => ~ExecutesInsertOrCommit(g)]_vars

\* the committed heading rows of one key, in id order
MeshOf(k) == SelectSeq(mesh_terms, LAMBDA m : m.pmcid = k)

\* C4: when a run has ended, the mesh_terms rows of every key in the articles
\* table are exactly the headings of the one article occurrence whose insert
\* succeeded; headings of occurrences whose insert was skipped are absent.
C4_LosingHeadingsAbsent ==
    RunEnded =>
        \A r \in articles :
            \E f \in Files : \E i \in DOMAIN Extracted(f).articles :
                /\ ArticleRow(Extracted(f).articles[i]) = r
                /\ MeshOf(r.pmcid) = Extracted(f).articles[i].mesh_terms

\* C5: the number of files whose task has been started and has not ended
\* (extracting, waiting for DB_LOCK, writing) never exceeds
\* max_threads.
C5_ConcurrencyBound == Cardinality(Active) <= max_threads

\* every worker is busy while another file is still queued
C5_Witness ==
    /\ Cardinality(Active) = max_threads
    /\ queue # <<>>
    /\ \E f \in Files : pc[f] = "waiting"

\* C6: in each run every file is dispatched at most once, parsed at most once
\* and handed to the writer at most once, it is pending exactly until it is
\* dispatched, and when the run has ended every file was dispatched once and is
\* done or failed.
C6_ExactlyOnce ==
    \A f \in Files :
        /\ calls[f].dispatched <= 1
        /\ calls[f].parsed <= 1
        /\ calls[f].inserted <= 1
        /\ pc[f] = "pending" <=> calls[f].dispatched = 0
        /\ RunEnded => calls[f].dispatched = 1 /\ calls[f].parsed = 1
                       /\ pc[f] \in Terminal

\* a run has ended in which one file failed in extraction and another was written
C6_Witness ==
    /\ RunEnded
    /\ \E f, g \in Files :
          /\ pc[f] = "failed" /\ calls[f].inserted = 0
          /\ pc[g] = "done" /\ calls[g].inserted = 1

\* lines 133-166 on a whole batch
RECURSIVE ExecuteBatch(_, _, _)
ExecuteBatch(table, c, arts) ==
    IF arts = <<>> THEN c
    ELSE ExecuteBatch(table, ExecuteArticle(table, c, Head(arts)), Tail(arts))

\* the store after insert_articles(arts) has run undisturbed on it
WrittenAlone(store, arts) == CommitTo(store, ExecuteBatch(store.articles, NoTx, arts))

\* the store after the files of order were written one after the other
RECURSIVE Replay(_, _)
Replay(store, order) ==
    IF order = <<>> THEN store
    ELSE Replay(WrittenAlone(store, Extracted(Head(order)).articles), Tail(order))

\* C7: a file fails only by an error of its own, raised by its extraction or by
\* its own write, never because another file failed; when the run has ended
\* every file is done or failed, the done files are the committed ones, and the
\* store is what writing the done files alone, in their commit order, gives.
C7_ErrorContained ==
    /\ Store = Replay(atRunStart, committed)
    /\ \A f \in Files : pc[f] = "failed" => error[f] \in {"parse", "write"}
    /\ RunEnded =>
          \A f \in Files : /\ pc[f] \in Terminal
                           /\ pc[f] = "done" <=> f \in Range(committed)

PrevWritesDone == \A f \in Files : Extracted(f).raised \/ f \in prevDone

C10_Terminates ==
    (\E f \in Files : pc[f] \notin Terminal) ~>
        (RunEnded /\ \A f \in Files : pc[f] \in Terminal)

\* a run has ended in which one file failed in extraction and one in writing
C10_Witness ==
    /\ RunEnded
    /\ \E f, g \in Files : error[f] = "parse" /\ error[g] = "write"

\* the number of rows a heading is to give: one per qualifier if it has a descriptor
RowsOf(h) == IF h.DescriptorName = <<>> THEN 0 ELSE Len(h.QualifierName)

\* the number of rows the headings before the j-th are to give
RECURSIVE RowsBefore(_, _)
RowsBefore(hs, j) == IF j <= 1 THEN 0 ELSE RowsBefore(hs, j - 1) + RowsOf(hs[j - 1])

\* C11: a keyed article gets exactly one heading row per pair of a heading that
\* has a descriptor and one of its qualifiers: a descriptor with n qualifiers
\* gives n rows that repeat its text, code and major flag, each with the fields
\* of its qualifier; a descriptor without qualifier gives no row, and a heading
\* without descriptor gives no row whatever qualifiers it has.
C11_RowPerDescriptorQualifier ==
    (parsed.returned /\ parsed.articles # <<>>) =>
        LET hs == root[1].MeshHeading
            a == parsed.articles[1]
            rows == a.mesh_terms
        IN  /\ Len(rows) = RowsBefore(hs, Len(hs) + 1)
            /\ \A j \in 1..Len(hs) : \A k \in 1..RowsOf(hs[j]) :
                   LET d == hs[j].DescriptorName[1]
                       q == hs[j].QualifierName[k]
                       row == rows[RowsBefore(hs, j) + k]
                   IN  /\ row.pmcid = a.pmcid
                       /\ row.descriptor = d.text /\ row.ui = d.UI
                       /\ row.major = (IF d.MajorTopicYN = "Y" THEN 1 ELSE 0)
                       /\ row.qualifier = q.text /\ row.qual_ui = q.UI
                       /\ row.qual_major = (IF q.MajorTopicYN = "Y" THEN 1 ELSE 0)

\* a heading without descriptor but with a qualifier, then a descriptor with
\* two qualifiers: the article is returned with two rows
C11_Witness ==
    /\ parsed.returned /\ Len(parsed.articles) = 1
    /\ Len(root[1].MeshHeading) = 2
    /\ root[1].MeshHeading[1].DescriptorName = <<>>
    /\ Len(root[1].MeshHeading[1].QualifierName) = 1
    /\ root[1].MeshHeading[2].DescriptorName # <<>>
    /\ Len(root[1].MeshHeading[2].QualifierName) = 2
    /\ Len(parsed.articles[1].mesh_terms) = 2

\* C12: in every committed state of the store every mesh_terms row carries a
\* key for which the articles table has a row: an article's insert attempt
\* comes before its heading inserts in the same transaction.
C12_HeadingsReferenceArticles ==
    \A i \in 1..Len(mesh_terms) : mesh_terms[i].pmcid \in Keys(articles)

\* the archive with two records of the same key is committed: the headings of
\* both are in the store
C12_Witness ==
    /\ \E f \in Files : pc[f] = "done" /\ files[f] = "b_a.xml.gz"
    /\ Len(mesh_terms) >= 2

\* the states of the file's life as section 4.3 names them: a task that has
\* called insert_articles and waits for DB_LOCK is in the writer
Phase(p) == IF p = "waiting" THEN "writing" ELSE p

\* pending -> extracting -> writing -> done | failed
PhaseSteps == {<<"pending", "extracting">>, <<"extracting", "writing">>,
               <<"extracting", "failed">>, <<"writing", "done">>,
               <<"writing", "failed">>}

\* C13: within a run each file moves only pending -> extracting -> writing ->
\* done, or from extracting or writing to failed; it enters the writer only
\* when its extraction has returned without error; done and failed are
\* terminal, a failed file is not taken up again.
C13_FileLifecycle ==
    [][run' = run =>
        \A f \in Files :
           /\ Phase(pc'[f]) # Phase(pc[f]) =>
                  <<Phase(pc[f]), Phase(pc'[f])>> \in PhaseSteps
           /\ Phase(pc'[f]) = "writing" =>
                  calls'[f].parsed = 1 /\ ~Extracted(f).raised
           /\ pc[f] \in Terminal => pc'[f] = pc[f]]_vars

\* the run has ended with one file done and one failed in extraction, each
\* dispatched once
C13_Witness ==
    /\ RunEnded
    /\ \E f, g \in Files : pc[f] = "done" /\ pc[g] = "failed" /\ error[g] = "parse"
    /\ calls[1].dispatched = 1

\* the keys of the well-formed records of an archive: those with a PMID and a
\* pmc id
WellFormedKeys(name) ==
    {ScanArticleIds(Content(name)[i].ArticleId, "pmc", None) :
        i \in {j \in 1..Len(Content(name)) : Content(name)[j].PMID # <<>>}} \ {None}

\* C14: a malformed article node, such as one without PMID, does not abort the
\* extraction of the other articles of its archive: unless the write itself
\* fails, the file reaches done and every other keyed article of the archive
\* is persisted.
C14_MalformedNodeIsolated ==
    \A f \in Files :
        (pc[f] \in Terminal /\ error[f] \notin {"write", "locked"}) =>
            /\ pc[f] = "done"
            /\ WellFormedKeys(files[f]) \subseteq Keys(articles)

\* the value of the first ArticleId of the type, None if there is none
FirstOfType(ids, type) ==
    LET at == {i \in 1..Len(ids) : ids[i].IdType = type}
    IN  IF at = {} THEN None
        ELSE ids[CHOOSE i \in at : \A j \in at : i <= j].text

\* C15: when an article has several ArticleId nodes of type pmc or of type doi,
\* the key and the DOI extracted are the values of the first node of the type;
\* later nodes of the same type are ignored.
C15_FirstIdWins ==
    parsed.returned =>
        LET ids == root[1].ArticleId
        IN  IF FirstOfType(ids, "pmc") = None THEN parsed.articles = <<>>
            ELSE /\ Len(parsed.articles) = 1
                 /\ parsed.articles[1].pmcid = FirstOfType(ids, "pmc")
                 /\ parsed.articles[1].doi = FirstOfType(ids, "doi")

\* C16: once the store holds an article row for a key, no later step of a
\* writer changes or removes it: an insert attempt for an existing key leaves
\* pmid, DOI, title and journal as they were first written.
C16_FirstRowKept ==
    [][\A r \in articles :
          /\ r \in articles'
          /\ \A r2 \in articles' : r2.pmcid = r.pmcid => r2 = r]_vars

\* PMC1 was written from the first archive; the second archive, which holds
\* two other records of PMC1, was committed after it
C16_Witness ==
    /\ committed = <<1, 2>>
    /\ files[1] = "a_nokey_c.xml.gz" /\ files[2] = "b_a.xml.gz"
    /\ \E r \in articles : r.pmcid = "PMC1" /\ r.pmid = "1" /\ r.title = "T1"

\* C17: every time the writer skips an article because its key is already in
\* the store, it prints the duplicate notice for that key and goes on with the
\* batch: no skip passes without notice, no skip fails the batch.
C17_SkipNoticed ==
    [][\A f \in Files :
          (/\ pc[f] = "writing"
           /\ pos'[f] = pos[f] + 1
           /\ batch[f][pos[f] + 1].pmcid \in Keys(Seen(f)))
          => /\ skipped' = Append(skipped, batch[f][pos[f] + 1].pmcid)
             /\ pc'[f] = "writing"]_vars

\* C18: DB_LOCK is held exactly while one task is inside the with block of
\* insert_articles and is released on every exit from it, also by an
\* exception: when no task is writing the lock is free, so a task that waits
\* for it is never held up by a task that is done or failed.
C18_LockHeldOnlyByWriter ==
    /\ [](/\ DB_LOCK # 0 => pc[DB_LOCK] = "writing"
          /\ \A f \in Files : pc[f] = "writing" => DB_LOCK = f
          /\ \A f \in Files :
                (pc[f] = "waiting" /\ \A g \in Files : pc[g] # "writing")
                    => LockFree(f))
    /\ [][\A f \in Files :
             (pc[f] = "writing" /\ pc'[f] \in Terminal) => DB_LOCK' = 0]_vars

\* a task has left the writer by an error while another task waits for the
\* lock, which is free
C18_Witness ==
    \E f, g \in Files :
        /\ pc[f] = "failed" /\ error[f] = "write"
        /\ pc[g] = "waiting"
        /\ DB_LOCK = 0

\* C19: when a file has reached done, every article of the file that has a
\* pmc key has a row with that key in the articles table.
C19_DoneFileIsStored ==
    \A f \in Files :
        pc[f] = "done" => WellFormedKeys(files[f]) \subseteq Keys(articles)

\* the archive with PMC1 and PMC2 is done while the other file's write failed:
\* the two keys are in the table
C19_Witness ==
    \E f, g \in Files :
        /\ pc[f] = "done" /\ files[f] = "a_nokey_c.xml.gz"
        /\ pc[g] = "failed" /\ error[g] = "write"
        /\ Keys(articles) = {"PMC1", "PMC2"}

\* the archive has a record at which the extractor raises
HasMalformed(name) == \E i \in 1..Len(Content(name)) : Content(name)[i].PMID = <<>>

\* C20: a file whose extraction raises goes to failed without the writer being
\* called for it: it never takes DB_LOCK, opens no transaction, commits
\* nothing, and its steps leave both tables as they are, the articles
\* extracted before the error included.
C20_FailedExtractionWritesNothing ==
    /\ [](\A f \in Files : HasMalformed(files[f]) =>
            /\ pc[f] \in {"pending", "extracting", "failed"}
            /\ calls[f].inserted = 0
            /\ batch[f] = <<>>
            /\ DB_LOCK # f
            /\ ~conn[f].tx
            /\ f \notin Range(committed))
    /\ []((\A f \in Files : HasMalformed(files[f])) => Store = NoStore)
    /\ [][\A f \in Files :
             (HasMalformed(files[f]) /\ pc'[f] # pc[f] /\ run' = run) =>
                 /\ articles' = articles
                 /\ mesh_terms' = mesh_terms
                 /\ DB_LOCK' = DB_LOCK]_vars

\* the run has ended: the archive whose second record has no PMID failed in
\* extraction, the other file is done, and PMC2, extracted before the error,
\* is not in the table
C20_Witness ==
    /\ RunEnded
    /\ \E f, g \in Files :
          /\ files[f] = "c_nopmid.xml.gz" /\ error[f] = "parse"
          /\ files[g] = "b_a.xml.gz" /\ pc[g] = "done"
    /\ Keys(articles) = {"PMC1"}
====
